---- MODULE Spec2Model ----
(***************************************************************************)
(* Conversation session state of forge.ai.                                 *)
(*                                                                         *)
(* Two providers keep the same React state (conversations,                 *)
(* currentConversation):                                                   *)
(*   - the ephemeral provider (src/unnamed/part_000): synchronous          *)
(*     operations, ids made from Date.now();                               *)
(*   - the persisted provider (src/contexts/ConversationContext.tsx,       *)
(*     lines 1-160): asynchronous operations that await the conversation   *)
(*     API, ids issued by the server.                                      *)
(* The chat view (src/shared/schema.ts, lines 28-285) drives one user turn *)
(* at a time through handleSubmit.                                         *)
(*                                                                         *)
(* React semantics kept by the model: a function made during a render      *)
(* reads the values the state had at that render (its closure), whereas a  *)
(* functional update  setX(prev => ...)  reads the state as it is when the *)
(* update is applied.  A handler started by a click runs with the closures *)
(* of the latest render; the continuation of an async function after an    *)
(* await still runs with the closures it started with.                     *)
(***************************************************************************)
EXTENDS Integers, Sequences, FiniteSets, TLC

\* ---------------------------------------------------------------- bounds
MaxClock == 1
MaxMsgs == 2
MaxConvs == 2
MaxCalls == 1
MaxLoads == 2

\* ------------------------------------------------------------- constants
TitleLimit == 50

\* ------------------------------------------------------------------ text
\* A text is a sequence of one-character strings.
Alphabet == <<"a", "b", "c", "d", "e", "f", "g", "h", "i", "j">>

Text(n) == [i \in 1..n |-> Alphabet[((i - 1) % 10) + 1]]

Placeholder ==
  <<"N", "e", "w", " ", "C", "o", "n", "v", "e", "r", "s", "a", "t", "i", "o", "n">>

Ellipsis == <<".", ".", ".">>

Min(a, b) == IF a < b THEN a ELSE b

\* String.prototype.slice(from, to) for 0 <= from <= to.
Slice(s, from, to) == SubSeq(s, from + 1, Min(to, Len(s)))

\* What the user can type: a text that fits a title and one that does not.
UserContents == {Text(TitleLimit), Text(TitleLimit + 1)}

\* What is typed into the chat view's form.
TypedContents == {Text(TitleLimit + 1)}

Whitespace == {" ", "\n", "\t"}

RECURSIVE TrimStart(_)
TrimStart(s) ==
  IF s # <<>> /\ Head(s) \in Whitespace THEN TrimStart(Tail(s)) ELSE s

RECURSIVE TrimEnd(_)
TrimEnd(s) ==
  IF s # <<>> /\ s[Len(s)] \in Whitespace THEN TrimEnd(SubSeq(s, 1, Len(s) - 1)) ELSE s

\* String.prototype.trim()
Trim(s) == TrimEnd(TrimStart(s))

\* What the form's input can hold when it is submitted: nothing, only
\* whitespace, or a typed text with whitespace around it.
Inputs ==
  {<<>>, <<" ", "\n">>} \cup {<<" ">> \o t \o <<"\n">> : t \in TypedContents}

Roles == {"user", "assistant"}

\* ----------------------------------------------------------------- state
VARIABLES
  mode,                 \* which provider is mounted: "ephemeral" | "persisted"
  mounted,              \* the provider's mount effect has run
  seeded,               \* startup seeding has completed (history)
  conversations,        \* useState<Conversation[]>
  currentConversation,  \* useState<Conversation | null>
  clock,                \* the value Date.now() returns
  msgSeq,               \* number of messages created so far (message ids)
  flow,                 \* ephemeral: what the caller's running handler holds
  user,                 \* persisted: the identity useAuth() supplies
  isLoading,            \* persisted: the provider's isLoading flag
  srvSeq,               \* persisted: number of conversation ids the server issued
  calls,                \* persisted: provider operations awaiting the API
  turn,                 \* persisted: the chat view's handleSubmit in progress
  last                  \* the operation completed by the latest step

vars == <<mode, mounted, seeded, conversations, currentConversation, clock, msgSeq,
          flow, user, isLoading, srvSeq, calls, turn, last>>

ephVars == <<flow>>
perVars == <<user, isLoading, srvSeq, calls, turn>>

\* null / undefined, in the shape of a conversation so that  c?.id  is total
Null == [id |-> -1, title |-> <<>>, messages |-> <<>>, createdAt |-> -1]

\* A new conversation made without the placeholder title.
NewConversation_Untitled(id, at) ==
  [id |-> id, title |-> <<>>, messages |-> <<>>, createdAt |-> at]

NewConversation(id, at) ==
  [id |-> id, title |-> Placeholder, messages |-> <<>>, createdAt |-> at]

\* Message.timestamp is written once and read by no operation: it is not kept.
NewMessage(id, role, content) == [id |-> id, role |-> role, content |-> content]

\* ---------------------------------------------------------- array helpers
HasMessages(c) == Len(c.messages) > 0

\* A filter that keeps only conversations with more than one message.
WithMessages_MoreThanOne(s) == SelectSeq(s, LAMBDA c : Len(c.messages) > 1)

\* conversations.filter(c => c.messages.length > 0)
WithMessages(s) == SelectSeq(s, HasMessages)

\* A filter that removes nothing.
Without_Nothing(s, id) == s

\* conversations.filter(c => c.id !== id)
Without(s, id) == SelectSeq(s, LAMBDA c : c.id # id)

\* A find that never finds.
Find_Nothing(s, id) == Null

\* conversations.find(c => c.id === id), Null for undefined
Find(s, id) ==
  IF \E i \in 1..Len(s) : s[i].id = id
  THEN s[CHOOSE i \in 1..Len(s) : s[i].id = id /\ \A j \in 1..(i - 1) : s[j].id # id]
  ELSE Null

\* prev.map(c => c.id === id ? updated : c)
MapReplace(s, id, updated) ==
  [i \in 1..Len(s) |-> IF s[i].id = id THEN updated ELSE s[i]]

Ids(s) == {s[i].id : i \in 1..Len(s)}

\* ------------------------------------------------------- title derivation
\* A derivation that never truncates.
DeriveTitle_Untruncated(conv, role, content) ==
  IF Len(conv.messages) = 0 /\ role = "user" THEN content ELSE conv.title

DeriveTitle(conv, role, content) ==
  IF Len(conv.messages) = 0 /\ role = "user"
  THEN Slice(content, 0, TitleLimit)
         \o (IF Len(content) > TitleLimit THEN Ellipsis ELSE <<>>)
  ELSE conv.title

\* { ...conv, messages: [...conv.messages, msg], title: ... }
UpdatedConversation(conv, msg) ==
  [conv EXCEPT !.messages = Append(conv.messages, msg),
               !.title = DeriveTitle(conv, msg.role, msg.content)]

\* ------------------------------------------------------------ history
\* last = the operation the latest step completed: its name, the
\* conversation id it was about, and whether it reported success.
\* ok: the caller was told it succeeded (it returned / resolved);
\* failed: a backend call made by the operation failed.
NoOp == [op |-> "none", id |-> -1, ok |-> TRUE, failed |-> FALSE]

Done(op, id, ok) == [op |-> op, id |-> id, ok |-> ok, failed |-> FALSE]

\* A completion that always reports success to the caller.
DoneAsync_AlwaysOk(op, id, ok, failed) ==
  [op |-> op, id |-> id, ok |-> TRUE, failed |-> failed]

DoneAsync(op, id, ok, failed) == [op |-> op, id |-> id, ok |-> ok, failed |-> failed]

NoFlow == [cur |-> Null, ret |-> Null]

NoUser == "none"
Users == {"u1"}

\* handleSubmit: where it is (pc), the currentConversation its addMessage
\* closes over (cur), the trimmed input (text) and how chat() ended (reply).
NoTurn == [pc |-> "idle", cur |-> Null, text |-> <<>>, reply |-> "none"]

InitAs(m) ==
  /\ mode = m
  /\ mounted = FALSE
  /\ seeded = FALSE
  /\ conversations = <<>>
  /\ currentConversation = Null
  /\ clock = 0
  /\ msgSeq = 0
  /\ flow = NoFlow
  /\ user = NoUser
  /\ isLoading = FALSE
  /\ srvSeq = 0
  /\ calls = {}
  /\ turn = NoTurn
  /\ last = NoOp

Init == \E m \in {"ephemeral", "persisted"} : InitAs(m)

InitEph == InitAs("ephemeral")

InitPer == InitAs("persisted")

\* ============================================================ ephemeral
\* Date.now() is non-decreasing: a reading is the previous reading or later.
Readings == {t \in clock..(clock + 1) : t <= MaxClock}

\* useEffect(() => {...}, []): seed one empty conversation.  Date.now() is
\* read twice: t1 for the id, t2 for createdAt.
EphMount ==
  /\ mode = "ephemeral" /\ ~mounted
  /\ \E t1 \in Readings : \E t2 \in {t \in t1..(t1 + 1) : t <= MaxClock} :
       /\ LET initialConversation == NewConversation(t1, t2) IN
            /\ conversations' = <<initialConversation>>
            /\ currentConversation' = initialConversation
            /\ last' = Done("mount", initialConversation.id, TRUE)
       /\ clock' = t2
  /\ mounted' = TRUE
  /\ UNCHANGED <<mode, msgSeq, flow, perVars>>
  /\ seeded' = TRUE

\* createConversation(), called by a click: its closure is the latest render.
EphCreateConversation ==
  /\ mode = "ephemeral" /\ mounted
  /\ \E t1 \in Readings : \E t2 \in {t \in t1..(t1 + 1) : t <= MaxClock} :
       /\ LET conversationsWithMessages == WithMessages(conversations)
              newConversation == NewConversation(t1, t2) IN
            /\ conversations' = <<newConversation>> \o conversationsWithMessages
            /\ currentConversation' = newConversation
            /\ flow' = [cur |-> currentConversation, ret |-> newConversation]
            /\ last' = Done("create", newConversation.id, TRUE)
       /\ clock' = t2
  /\ UNCHANGED <<mode, mounted, msgSeq, perVars>>
  /\ UNCHANGED seeded

\* The body of addMessage(role, content, targetConversation), run with a
\* closure whose currentConversation is cur.  target = Null: no argument.
EphAddMessageBody(cur, target, role, content) ==
  LET conversationToUpdate == IF target # Null THEN target ELSE cur IN
  /\ IF conversationToUpdate = Null
     THEN \* throw new Error('No conversation available')
          /\ last' = Done("addMessage", -1, FALSE)
          /\ UNCHANGED <<conversations, currentConversation, flow, msgSeq>>
     ELSE LET newMessage == NewMessage(msgSeq + 1, role, content)
              updatedConversation == UpdatedConversation(conversationToUpdate, newMessage)
          IN /\ msgSeq < MaxMsgs
             /\ msgSeq' = msgSeq + 1
             /\ conversations' =
                  MapReplace(conversations, conversationToUpdate.id, updatedConversation)
             /\ currentConversation' =
                  IF target = Null \/ conversationToUpdate.id = cur.id
                  THEN updatedConversation
                  ELSE currentConversation
             /\ flow' = [cur |-> cur, ret |-> updatedConversation]
             /\ last' = Done("addMessage", conversationToUpdate.id, TRUE)
  /\ UNCHANGED <<mode, mounted, clock, perVars>>
  /\ UNCHANGED seeded

\* addMessage called by a handler that starts now: the closure is the latest
\* render, and a target is a conversation that render shows.
EphAddMessage ==
  /\ mode = "ephemeral" /\ mounted
  /\ \E role \in Roles, content \in UserContents,
        target \in {Null} \cup {conversations[i] : i \in 1..Len(conversations)} :
       EphAddMessageBody(currentConversation, target, role, content)

\* addMessage called again by the handler that made the previous call (after
\* the reply arrived): it still holds the addMessage of the render it started
\* in, and passes no target, the conversation that call returned, or the
\* current conversation it captured.
EphAddMessageAgain ==
  /\ mode = "ephemeral" /\ mounted
  /\ flow # NoFlow
  /\ \E role \in Roles, content \in UserContents, target \in {Null, flow.ret, flow.cur} :
       EphAddMessageBody(flow.cur, target, role, content)

\* switchConversation(conversationId), the same code in both providers; a
\* click, so conversations is the latest render's.  The id is one of the
\* collection or one that no conversation has (AbsentId is above every id
\* the clock, the server or the stored list can give).
AbsentId == MaxClock + MaxConvs + 12

SwitchConversation ==
  /\ mounted
  /\ \E conversationId \in Ids(conversations) \cup {AbsentId} :
       LET conversation == Find(conversations, conversationId) IN
       /\ currentConversation' =
            IF conversation # Null THEN conversation ELSE currentConversation
       \* returns undefined whether or not the id was found
       /\ last' = Done("switch", conversationId, TRUE)
  /\ UNCHANGED <<mode, mounted, conversations, clock, msgSeq, ephVars, perVars>>
  /\ UNCHANGED seeded

EphDeleteConversation ==
  /\ mode = "ephemeral" /\ mounted
  /\ \E conversationId \in Ids(conversations) \cup {AbsentId} :
       LET updatedConversations == Without(conversations, conversationId)
           conversationsWithMessages == WithMessages(updatedConversations)
       IN
       /\ last' = Done("delete", conversationId, TRUE)
       /\ IF currentConversation.id = conversationId
          THEN IF Len(conversationsWithMessages) > 0
               THEN /\ conversations' = updatedConversations
                    /\ currentConversation' = conversationsWithMessages[1]
                    /\ UNCHANGED clock
               ELSE \E t1 \in Readings : \E t2 \in {t \in t1..(t1 + 1) : t <= MaxClock} :
                      LET newConversation == NewConversation(t1, t2) IN
                      /\ conversations' = <<newConversation>>
                      /\ currentConversation' = newConversation
                      /\ clock' = t2
          ELSE /\ conversations' = updatedConversations
               /\ UNCHANGED <<currentConversation, clock>>
  /\ UNCHANGED <<mode, mounted, msgSeq, flow, perVars>>
  /\ UNCHANGED seeded

\* ============================================================ persisted
\* An operation of the persisted provider that awaits the API:
\*   kind   "load" | "create" | "delete" | "clear"
\*   stage  the API call it awaits: "list" | "delete" | "create"
\*   id     the conversation id it was called with; for a load, minus its
\*          number among the loads in flight (-1 when it is the only one)
\*   curId  currentConversation?.id of its closure
\*   convs  conversations of its closure
Call(kind, stage, id, curId, convs) ==
  [kind |-> kind, stage |-> stage, id |-> id, curId |-> curId, convs |-> convs]

\* The reply chat() returns, and the text handleSubmit records when a call of
\* the turn throws.
ReplyContent == <<"o", "k">>
ErrorContent == <<"S", "o", "r", "r", "y">>

\* What the remote store may hold for an identity when it is asked for the
\* list: nothing, or conversations of earlier sessions (their ids and message
\* ids were issued before this session), in whatever order it returns them.
\* The server stamps a conversation when it inserts it: a later insert gets
\* a later stamp, and what was stored before this session is older.
ServerTime(n) == n

Stored(id, at, messages) ==
  [id |-> id, title |-> Placeholder, messages |-> messages, createdAt |-> at]

StoredFull == Stored(11, 0, <<NewMessage(0, "user", Text(TitleLimit + 1))>>)

StoredLists == {<<>>, <<StoredFull>>}

\* A conversation stored before StoredFull, and the lists of both.
StoredOlder == Stored(10, ServerTime(0) - 1, <<>>)

AnyOrderLists ==
  {<<>>, <<StoredFull>>, <<StoredFull, StoredOlder>>, <<StoredOlder, StoredFull>>}

\* The mount effect of the persisted provider, run with no identity yet.
PerMount ==
  /\ mode = "persisted" /\ ~mounted
  /\ mounted' = TRUE
  /\ conversations' = <<>>
  /\ currentConversation' = Null
  /\ last' = Done("mount", -1, TRUE)
  /\ UNCHANGED <<mode, clock, msgSeq, ephVars, perVars>>
  /\ UNCHANGED seeded

\* useEffect(..., [user?.id]) when an identity arrives: loadConversations()
\* runs up to its first await.
LoginUpTo(max) ==
  /\ mode = "persisted" /\ mounted
  /\ user = NoUser
  /\ Cardinality(calls) < max
  /\ \E u \in Users : user' = u
  /\ isLoading' = TRUE
  /\ LET free == {n \in 1..max : \A call \in calls : call.kind = "load" => call.id # -n}
         n == CHOOSE n \in free : \A m \in free : n <= m
     IN calls' = calls \cup {Call("load", "list", -n, -1, <<>>)}
  /\ last' = Done("login", -1, TRUE)
  /\ UNCHANGED <<mode, mounted, conversations, currentConversation, clock, msgSeq,
                 ephVars, srvSeq, turn>>
  /\ seeded' = FALSE

Login == LoginUpTo(MaxCalls)

\* The same while the load of an earlier identity may still be in flight.
LoginOverlapping == LoginUpTo(MaxLoads)

\* The same effect when the identity becomes none.
Logout ==
  /\ mode = "persisted" /\ mounted
  /\ user # NoUser
  /\ user' = NoUser
  /\ conversations' = <<>>
  /\ currentConversation' = Null
  /\ last' = Done("logout", -1, TRUE)
  /\ UNCHANGED <<mode, mounted, clock, msgSeq, ephVars, isLoading, srvSeq,
                 calls, turn>>
  /\ seeded' = FALSE

\* A load that clears the store when the list call throws.
LoadListed_ClearsOnFailure ==
  /\ \E call \in calls :
       /\ call.kind = "load" /\ call.stage = "list"
       /\ calls' = calls \ {call}
       /\ isLoading' = FALSE
       /\ conversations' = <<>>
       /\ currentConversation' = Null
       /\ last' = DoneAsync("load", -1, TRUE, TRUE)
  /\ UNCHANGED <<mode, mounted, seeded, clock, msgSeq, ephVars, user, srvSeq, turn>>

\* conversationAPI.getConversations() returns one of lists, or throws.
LoadListedFrom(lists) ==
  /\ \E call \in calls :
       /\ call.kind = "load" /\ call.stage = "list"
       /\ \/ \E data \in lists :
               /\ conversations' = data
               /\ IF Len(data) > 0
                  THEN /\ currentConversation' = data[1]
                       /\ seeded' = TRUE
                       /\ calls' = calls \ {call}
                       /\ isLoading' = FALSE
                       /\ last' = DoneAsync("load", -1, TRUE, FALSE)
                  ELSE /\ calls' = (calls \ {call}) \cup {[call EXCEPT !.stage = "create"]}
                       /\ UNCHANGED <<currentConversation, isLoading, seeded>>
                       /\ last' = NoOp
          \/ /\ calls' = calls \ {call}
             /\ isLoading' = FALSE
             /\ last' = DoneAsync("load", -1, TRUE, TRUE)
             /\ UNCHANGED <<conversations, currentConversation, seeded>>
  /\ UNCHANGED <<mode, mounted, clock, msgSeq, ephVars, user, srvSeq, turn>>

LoadListed == LoadListedFrom(StoredLists)

\* The same with a stored list of two conversations, which the server may
\* return in either order.
LoadListedAnyOrder == LoadListedFrom(AnyOrderLists)

\* A click on "New Chat": createNewConversation() up to its await.
CreateNewConversation ==
  /\ mode = "persisted" /\ mounted /\ user # NoUser
  /\ Cardinality(calls) < MaxCalls
  /\ calls' = calls \cup {Call("create", "create", -1, -1, <<>>)}
  /\ last' = NoOp
  /\ UNCHANGED <<mode, mounted, conversations, currentConversation, clock, msgSeq,
                 ephVars, user, isLoading, srvSeq, turn>>
  /\ UNCHANGED seeded

\* A createNewConversation that inserts a conversation although the API call
\* failed.
Created_PartialInsert ==
  /\ \E call \in calls :
       /\ call.stage = "create"
       /\ calls' = calls \ {call}
       /\ isLoading' = IF call.kind = "load" THEN FALSE ELSE isLoading
       /\ conversations' = <<NewConversation(AbsentId, 0)>> \o conversations
       /\ last' = DoneAsync(call.kind, call.id, TRUE, TRUE)
  /\ UNCHANGED <<mode, mounted, seeded, currentConversation, clock, msgSeq, ephVars,
                 user, srvSeq, turn>>

\* conversationAPI.createConversation('New Conversation') returns or throws,
\* inside createNewConversation() called by the click, by
\* loadConversations(), by deleteConversation() or by
\* clearCurrentConversation().  createNewConversation catches the failure, so
\* its caller goes on as after a success.
Created ==
  /\ \E call \in calls :
       /\ call.stage = "create"
       /\ calls' = calls \ {call}
       /\ isLoading' = IF call.kind = "load" THEN FALSE ELSE isLoading
       /\ \/ /\ srvSeq < MaxConvs
             /\ LET newConversation == NewConversation(srvSeq + 1, ServerTime(srvSeq + 1)) IN
                  /\ srvSeq' = srvSeq + 1
                  /\ conversations' = <<newConversation>> \o conversations
                  /\ currentConversation' = newConversation
                  /\ seeded' = (seeded \/ call.kind = "load")
                  /\ last' = DoneAsync(call.kind, IF call.kind = "create"
                                                  THEN newConversation.id ELSE call.id,
                                       TRUE, FALSE)
          \/ /\ last' = DoneAsync(call.kind, call.id, TRUE, TRUE)
             /\ UNCHANGED <<conversations, currentConversation, srvSeq, seeded>>
  /\ UNCHANGED <<mode, mounted, clock, msgSeq, ephVars, user, turn>>

\* A click on a conversation's delete control: deleteConversation(id) up to
\* its await.
DeleteConversation ==
  /\ mode = "persisted" /\ mounted /\ user # NoUser
  /\ Cardinality(calls) < MaxCalls
  /\ \E conversationId \in Ids(conversations) :
       calls' = calls \cup {Call("delete", "delete", conversationId,
                                 currentConversation.id,
                                 \* read only when the current one is deleted
                                 IF currentConversation.id = conversationId
                                 THEN conversations ELSE <<>>)}
  /\ last' = NoOp
  /\ UNCHANGED <<mode, mounted, conversations, currentConversation, clock, msgSeq,
                 ephVars, user, isLoading, srvSeq, turn>>
  /\ UNCHANGED seeded

\* A click on "Clear": clearCurrentConversation() up to its await.
ClearCurrentConversation ==
  /\ mode = "persisted" /\ mounted /\ user # NoUser
  /\ IF currentConversation = Null
     THEN /\ last' = Done("clear", -1, TRUE)
          /\ UNCHANGED calls
     ELSE /\ Cardinality(calls) < MaxCalls
          /\ calls' = calls \cup {Call("clear", "delete", currentConversation.id,
                                       currentConversation.id, <<>>)}
          /\ last' = NoOp
  /\ UNCHANGED <<mode, mounted, conversations, currentConversation, clock, msgSeq,
                 ephVars, user, isLoading, srvSeq, turn>>
  /\ UNCHANGED seeded

\* conversationAPI.deleteConversation(id) returns or throws, inside
\* deleteConversation or clearCurrentConversation.
Deleted ==
  /\ \E call \in calls :
       /\ call.stage = "delete"
       /\ \/ /\ IF call.kind = "delete"
                THEN /\ conversations' = Without(conversations, call.id)
                     /\ IF call.curId = call.id
                        THEN LET remaining == Without(call.convs, call.id) IN
                             IF Len(remaining) > 0
                             THEN /\ currentConversation' = remaining[1]
                                  /\ calls' = calls \ {call}
                                  /\ last' = DoneAsync("delete", call.id, TRUE, FALSE)
                             ELSE /\ calls' = (calls \ {call})
                                                \cup {[call EXCEPT !.stage = "create"]}
                                  /\ last' = NoOp
                                  /\ UNCHANGED currentConversation
                        ELSE /\ calls' = calls \ {call}
                             /\ last' = DoneAsync("delete", call.id, TRUE, FALSE)
                             /\ UNCHANGED currentConversation
                ELSE /\ calls' = (calls \ {call}) \cup {[call EXCEPT !.stage = "create"]}
                     /\ last' = NoOp
                     /\ UNCHANGED <<conversations, currentConversation>>
          \/ /\ calls' = calls \ {call}
             /\ last' = DoneAsync(call.kind, call.id, TRUE, TRUE)
             /\ UNCHANGED <<conversations, currentConversation>>
  /\ UNCHANGED <<mode, mounted, clock, msgSeq, ephVars, user, isLoading, srvSeq, turn>>
  /\ UNCHANGED seeded

\* ------------------------------------------------------------- the turn
\* A view whose isLoading flag is never seen set.
ViewIsLoading_Never == FALSE

\* The chat view's isLoading flag: setIsLoading(true) before the first await
\* of handleSubmit, setIsLoading(false) in its finally block.
ViewIsLoading == turn.pc # "idle"

\* handleSubmit (the form's submit, or Enter through handleKeyDown) returning
\* at once:  if (!input.trim() || isLoading) return;
SubmitIgnored ==
  /\ mode = "persisted" /\ mounted /\ user # NoUser
  /\ \E input \in Inputs : Trim(input) = <<>> \/ ViewIsLoading
  /\ last' = Done("submit", -1, FALSE)
  /\ UNCHANGED <<mode, mounted, seeded, conversations, currentConversation, clock,
                 msgSeq, ephVars, perVars>>

\* handleSubmit up to its first await: the form is submitted with a
\* non-blank input while no turn is loading.  The addMessage it calls from
\* now on is the one of this render.
Submit ==
  /\ mode = "persisted" /\ mounted /\ user # NoUser
  /\ ~ViewIsLoading
  /\ \E input \in Inputs :
       /\ Trim(input) # <<>>
       /\ turn' = [pc |-> "addUser", cur |-> currentConversation,
                   text |-> Trim(input), reply |-> "none"]
  /\ last' = NoOp
  /\ UNCHANGED <<mode, mounted, conversations, currentConversation, clock, msgSeq,
                 ephVars, user, isLoading, srvSeq, calls>>
  /\ UNCHANGED seeded

\* The persisted addMessage(role, content) of the render whose
\* currentConversation was cur, from its call to the end of its await;
\* handleSubmit goes on at pc ok after it returns and at pc bad after it throws.
After(pc) == IF pc = "idle" THEN NoTurn ELSE [turn EXCEPT !.pc = pc]

PerAddMessage(cur, role, content, ok, bad) ==
  IF cur = Null
  THEN \* if (!currentConversation) return;
       /\ turn' = After(ok)
       /\ last' = DoneAsync("addMessage", -1, TRUE, FALSE)
       /\ UNCHANGED <<conversations, currentConversation, msgSeq>>
  ELSE \/ /\ msgSeq < MaxMsgs
          /\ LET newMessage == NewMessage(msgSeq + 1, role, content)
                 updatedConversation == UpdatedConversation(cur, newMessage)
             IN /\ msgSeq' = msgSeq + 1
                /\ currentConversation' = updatedConversation
                /\ conversations' =
                     MapReplace(conversations, updatedConversation.id, updatedConversation)
          /\ turn' = After(ok)
          /\ last' = DoneAsync("addMessage", cur.id, TRUE, FALSE)
       \/ \* conversationAPI.addMessage throws; addMessage rethrows
          /\ turn' = After(bad)
          /\ last' = DoneAsync("addMessage", cur.id, FALSE, TRUE)
          /\ UNCHANGED <<conversations, currentConversation, msgSeq>>

\* The messages of a conversation as chat() takes them.
AsHistory(messages) ==
  [i \in 1..Len(messages) |->
     [role |-> IF messages[i].role = "user" THEN "user" ELSE "model",
      parts |-> messages[i].content]]

\* const history = [...(currentConversation?.messages.map(...) || []),
\*                  { role: 'user', parts: userMessage }]
\* built by handleSubmit from the currentConversation of its render.
History(cur, userMessage) ==
  AsHistory(cur.messages) \o <<[role |-> "user", parts |-> userMessage]>>

\* await addMessage('user', userMessage)
TurnAddUser ==
  /\ turn.pc = "addUser"
  /\ PerAddMessage(turn.cur, "user", turn.text, "chat", "addError")
  /\ UNCHANGED <<mode, mounted, clock, ephVars, user, isLoading, srvSeq, calls>>
  /\ UNCHANGED seeded

\* await chat(userMessage, history): a reply, or a ProviderError
TurnChat ==
  /\ turn.pc = "chat"
  /\ \/ turn' = [turn EXCEPT !.pc = "addReply", !.reply = "ok"]
     \/ turn' = [turn EXCEPT !.pc = "addError", !.reply = "failed"]
  /\ last' = NoOp
  /\ UNCHANGED <<mode, mounted, conversations, currentConversation, clock, msgSeq,
                 ephVars, user, isLoading, srvSeq, calls>>
  /\ UNCHANGED seeded

\* await addMessage('assistant', response); then the finally block
TurnAddReply ==
  /\ turn.pc = "addReply"
  /\ PerAddMessage(turn.cur, "assistant", ReplyContent, "idle", "addError")
  /\ UNCHANGED <<mode, mounted, clock, ephVars, user, isLoading, srvSeq, calls>>
  /\ UNCHANGED seeded

\* A catch block whose failing addMessage call is tried again, with no finally
\* block after it.
TurnAddError_NoFinally ==
  /\ turn.pc = "addError"
  /\ PerAddMessage(turn.cur, "assistant", ErrorContent, "idle", "addError")
  /\ UNCHANGED <<mode, mounted, clock, ephVars, user, isLoading, srvSeq, calls>>
  /\ UNCHANGED seeded

\* catch: await addMessage('assistant', `Sorry, ...`); then the finally
\* block, also when this call throws
TurnAddError ==
  /\ turn.pc = "addError"
  /\ PerAddMessage(turn.cur, "assistant", ErrorContent, "idle", "idle")
  /\ UNCHANGED <<mode, mounted, clock, ephVars, user, isLoading, srvSeq, calls>>
  /\ UNCHANGED seeded

\* ----------------------------------------------------------- the sidebar
\* The names of the value each provider hands to useConversation().
Provided ==
  IF mode = "ephemeral"
  THEN {"conversations", "currentConversation", "addMessage", "createConversation",
        "switchConversation", "deleteConversation"}
  ELSE {"conversations", "currentConversation", "addMessage", "createNewConversation",
        "switchConversation", "deleteConversation", "clearCurrentConversation",
        "isLoading"}

\* A click on the sidebar's "New chat": startFreshConversation(), taken from
\* useConversation().  A name the value does not have is undefined, and
\* calling it throws a TypeError before anything else runs.
SidebarNewChat ==
  /\ mounted
  /\ IF "startFreshConversation" \in Provided
     THEN IF mode = "ephemeral" THEN EphCreateConversation ELSE CreateNewConversation
     ELSE /\ last' = Done("newChat", -1, FALSE)
          /\ UNCHANGED <<mode, mounted, seeded, conversations, currentConversation,
                         clock, msgSeq, ephVars, perVars>>

NextEph ==
  \/ SwitchConversation
  \/ EphMount
  \/ EphCreateConversation
  \/ EphAddMessage
  \/ EphAddMessageAgain
  \/ EphDeleteConversation

NextPer ==
  \/ SwitchConversation
  \/ PerMount
  \/ Login
  \/ Logout
  \/ LoadListed
  \/ CreateNewConversation
  \/ Created
  \/ DeleteConversation
  \/ ClearCurrentConversation
  \/ Deleted
  \/ Submit
  \/ TurnAddUser
  \/ TurnChat
  \/ TurnAddReply
  \/ TurnAddError

Next == NextEph \/ NextPer

\* Either provider.
Spec == Init /\ [][Next]_vars

\* The ephemeral provider alone.
SpecEph == InitEph /\ [][NextEph]_vars

\* The persisted provider and the chat view alone.
SpecPer == InitPer /\ [][NextPer]_vars

\* The persisted provider without the chat view, over the stored lists of two
\* conversations.
NextLists ==
  \/ SwitchConversation
  \/ PerMount
  \/ Login
  \/ Logout
  \/ LoadListedAnyOrder
  \/ CreateNewConversation
  \/ Created
  \/ DeleteConversation
  \/ ClearCurrentConversation
  \/ Deleted

SpecLists == InitPer /\ [][NextLists]_vars

\* The sidebar over either provider: its "New chat", its conversation rows
\* (switch) and their delete buttons, without the chat view.
NextSidebar ==
  \/ SidebarNewChat
  \/ SwitchConversation
  \/ EphMount
  \/ EphCreateConversation
  \/ EphDeleteConversation
  \/ PerMount
  \/ Login
  \/ Logout
  \/ LoadListed
  \/ CreateNewConversation
  \/ Created
  \/ DeleteConversation
  \/ ClearCurrentConversation
  \/ Deleted

SpecSidebar == Init /\ [][NextSidebar]_vars

\* The chat view over the persisted provider: turns, ignored submits, and
\* the switches and loads that can happen while a turn is in flight.
NextView ==
  \/ SwitchConversation
  \/ PerMount
  \/ Login
  \/ Logout
  \/ LoadListed
  \/ Created
  \/ Submit
  \/ SubmitIgnored
  \/ TurnAddUser
  \/ TurnChat
  \/ TurnAddReply
  \/ TurnAddError

SpecView == InitPer /\ [][NextView]_vars

\* Each call a turn awaits (addMessage, chat) eventually returns or fails.
SpecViewFair ==
  /\ SpecView
  /\ WF_vars(TurnAddUser)
  /\ WF_vars(TurnChat)
  /\ WF_vars(TurnAddReply)
  /\ WF_vars(TurnAddError)

\* The loads of the persisted provider, of which a second may start before
\* the first has finished.
NextLoads ==
  \/ SwitchConversation
  \/ PerMount
  \/ LoginOverlapping
  \/ Logout
  \/ LoadListed
  \/ Created

SpecLoads == InitPer /\ [][NextLoads]_vars

\* ================================================================ claims
Indexes(s) == 1..Len(s)

Last(s) == s[Len(s)]

\* The latest step completed one of the store's operations.
Completed ==
  last.op \in {"create", "switch", "addMessage", "delete", "clear"}

\* C1: after every operation no two conversations of the collection share
\* an id.
C1_UniqueIds ==
  \A i, j \in Indexes(conversations) :
    i # j => conversations[i].id # conversations[j].id

\* No provider operation is awaiting the API: the store has settled.
Settled == calls = {}

\* C2: once startup seeding has completed, after every completed operation
\* (with no other operation still in flight) the collection is non-empty and
\* the current conversation is non-null with an id that is in the collection.
C2_NeverEmpty ==
  (seeded /\ Completed /\ Settled) =>
    /\ Len(conversations) > 0
    /\ currentConversation # Null
    /\ currentConversation.id \in Ids(conversations)

\* messages' is messages, or messages with one message appended
Extends(old, new) ==
  \/ new = old
  \/ Len(new) = Len(old) + 1 /\ SubSeq(new, 1, Len(old)) = old

\* C3: for every conversation id that remains in the collection, a step
\* leaves its message sequence unchanged or appends exactly one message to it.
C3_AppendOnly ==
  [][\A i \in Indexes(conversations) : \A j \in Indexes(conversations') :
       conversations[i].id = conversations'[j].id =>
         Extends(conversations[i].messages, conversations'[j].messages)]_vars

\* C4: once a conversation contains a message, no step changes its title.
C4_TitleFrozen ==
  [][\A i \in Indexes(conversations) : \A j \in Indexes(conversations') :
       (conversations[i].id = conversations'[j].id /\ HasMessages(conversations[i])) =>
         conversations'[j].title = conversations[i].title]_vars

\* The conversation the latest addMessage produced: the one it returned
\* (ephemeral) or installed as current (persisted).
AddResult == IF mode = "ephemeral" THEN flow.ret ELSE currentConversation

\* The latest step was an addMessage that appended the first message of a
\* conversation.
AddedFirst ==
  /\ last.op = "addMessage" /\ last.ok /\ last.id # -1
  /\ Len(AddResult.messages) = 1

\* C5: after addMessage appends the first message of a conversation, the
\* title is the content itself when the role is user and the content has at
\* most 50 characters, the first 50 characters of the content followed by
\* "..." when the role is user and the content is longer, and the placeholder
\* "New Conversation" when the role is assistant.
C5_TitleDerivation ==
  AddedFirst =>
    LET title == AddResult.title
        content == AddResult.messages[1].content
    IN IF AddResult.messages[1].role = "user"
       THEN IF Len(content) <= 50
            THEN title = content
            ELSE /\ Len(title) = 53
                 /\ \A i \in 1..50 : title[i] = content[i]
                 /\ \A i \in 51..53 : title[i] = "."
       ELSE title = Placeholder

\* C5 witness: a first user message of more than 50 characters was appended
\* and the title is 53 characters long.
C5_Witness ==
  /\ AddedFirst
  /\ AddResult.messages[1].role = "user"
  /\ Len(AddResult.messages[1].content) > 50
  /\ Len(AddResult.title) = 53

\* C6: right after createConversation completes, every conversation of the
\* collection that has zero messages is the newly created one.
C6_OnlyNewIsEmpty ==
  (last.op = "create" /\ ~last.failed) =>
    \A i \in Indexes(conversations) :
      ~HasMessages(conversations[i]) => conversations[i].id = last.id

\* The step applies the result of a deletion of conversation id: the
\* ephemeral deleteConversation(id), or the persisted deleteConversation(id)
\* or clearCurrentConversation() on id resuming after the API call.
DeletionOf(id) ==
  \/ mode = "ephemeral" /\ last'.op = "delete" /\ last'.id = id
  \/ \E call \in calls \ calls' : call.stage = "delete" /\ call.id = id

\* The step belongs to an identity change: the identity itself changes, or
\* the list loaded for the new identity replaces the collection.
IdentityChange ==
  \/ user' # user
  \/ \E call \in calls \ calls' : call.kind = "load" /\ call.stage = "list"

\* C7: a conversation that has a message leaves the collection only in a step
\* that deletes (or clears) its own id or that belongs to an identity change.
C7_KeptUnlessDeleted ==
  [][\A i \in Indexes(conversations) :
       (HasMessages(conversations[i]) /\ conversations[i].id \notin Ids(conversations'))
         => (DeletionOf(conversations[i].id) \/ IdentityChange)]_vars

\* C7 witness: createConversation has just completed and a conversation with
\* a message is still in the collection behind the new one.
C7_Witness ==
  /\ last.op = "create" /\ ~last.failed
  /\ Len(conversations) > 1
  /\ \E i \in Indexes(conversations) :
       HasMessages(conversations[i]) /\ conversations[i].id # last.id

\* c is, among the conversations of s, one with the greatest createdAt, and
\* the first such in collection order.
Newest(s, i) ==
  /\ \A j \in Indexes(s) : s[j].createdAt <= s[i].createdAt
  /\ \A j \in 1..(i - 1) : s[j].createdAt < s[i].createdAt

\* The step applies deleteConversation(id) called while id was the current
\* conversation's id.
DeletionOfCurrent(id) ==
  \/ mode = "ephemeral" /\ last'.op = "delete" /\ last'.id = id
  \/ \E call \in calls \ calls' :
       call.kind = "delete" /\ call.stage = "delete" /\ call.id = id /\ call.curId = id

\* C8: when a deleteConversation step removes the current conversation and a
\* conversation with a message remains, the new current conversation is the
\* remaining conversation with the greatest createdAt among those with a
\* message, the first of them in collection order.
C8_Replacement ==
  [][(/\ currentConversation.id \in Ids(conversations)
      /\ currentConversation.id \notin Ids(conversations')
      /\ DeletionOfCurrent(currentConversation.id)
      /\ WithMessages(conversations') # <<>>)
       => \E i \in Indexes(WithMessages(conversations')) :
            /\ Newest(WithMessages(conversations'), i)
            /\ currentConversation' = WithMessages(conversations')[i]]_vars

\* C9: when the second addMessage of a turn (the assistant reply) completes
\* after the first one (the user message) has completed on the same
\* conversation, the conversation's messages in the collection contain both,
\* the user message before the reply.
C9_BothInOrder ==
  [][(/\ turn.pc = "addReply" /\ turn.cur # Null
      /\ msgSeq' = msgSeq + 1
      /\ turn.cur.id \in Ids(conversations'))
       => LET messages == Find(conversations', turn.cur.id).messages IN
          \E a, b \in Indexes(messages) :
            /\ a < b
            /\ messages[a] = NewMessage(msgSeq, "user", turn.text)
            /\ messages[b] = NewMessage(msgSeq + 1, "assistant", ReplyContent)]_vars

\* C10: when a turn finishes whose user message was stored and whose closing
\* assistant message was stored, the conversation's messages end with the
\* user's message followed by one assistant message: the reply when chat()
\* succeeded, the failure text when it failed.
C10_TurnTranscript ==
  [][(/\ turn.cur # Null /\ turn'.pc = "idle"
      /\ \/ turn.pc = "addReply" /\ turn.reply = "ok"
         \/ turn.pc = "addError" /\ turn.reply = "failed"
      /\ msgSeq' = msgSeq + 1
      /\ turn.cur.id \in Ids(conversations'))
       => LET messages == Find(conversations', turn.cur.id).messages
              n == Len(messages)
          IN /\ n >= 2
             /\ messages[n - 1].role = "user"
             /\ messages[n - 1].content = turn.text
             /\ messages[n].role = "assistant"
             /\ messages[n].content =
                  (IF turn.reply = "ok" THEN ReplyContent ELSE ErrorContent)]_vars

\* A persisted addMessage of the turn is in flight, holding a conversation of
\* the collection, while switchConversation has made another conversation of
\* the collection current.
SwitchedInFlight ==
  /\ turn.pc \in {"addUser", "addReply", "addError"} /\ turn.cur # Null
  /\ turn.cur.id \in Ids(conversations)
  /\ currentConversation.id \in Ids(conversations)
  /\ currentConversation.id # turn.cur.id
  /\ last.op = "switch" /\ last.ok

\* The step appends one message to the entries with id and changes no other
\* entry of the collection.
AppendedOnlyTo(id) ==
  /\ Len(conversations') = Len(conversations)
  /\ \A i \in Indexes(conversations) :
       IF conversations[i].id = id
       THEN /\ Len(conversations'[i].messages) = Len(conversations[i].messages) + 1
            /\ SubSeq(conversations'[i].messages, 1, Len(conversations[i].messages))
                 = conversations[i].messages
            /\ Last(conversations'[i].messages).id = msgSeq'
       ELSE conversations'[i] = conversations[i]

\* C11: when a persisted addMessage on conversation A completes right after
\* switchConversation(B) happened while it was in flight, the new message is
\* appended to A's entry of the collection and every other entry, B's
\* included, is unchanged.
C11_SwitchInFlight ==
  [][(SwitchedInFlight /\ msgSeq' = msgSeq + 1) => AppendedOnlyTo(turn.cur.id)]_vars

\* C12: the conversation the ephemeral addMessage returns holds the messages
\* the target conversation had in the collection before the call followed by
\* the one new message, and after the call the collection's entry with that
\* id has the title and the messages of the returned conversation.
C12_ReturnedConversation ==
  [][(/\ mode = "ephemeral"
      /\ last'.op = "addMessage" /\ last'.ok /\ msgSeq' = msgSeq + 1
      /\ last'.id \in Ids(conversations))
       => LET before == Find(conversations, last'.id)
              after == Find(conversations', last'.id)
              returned == flow'.ret
          IN /\ Len(returned.messages) = Len(before.messages) + 1
             /\ SubSeq(returned.messages, 1, Len(before.messages)) = before.messages
             /\ Last(returned.messages).id = msgSeq'
             /\ after.title = returned.title
             /\ after.messages = returned.messages]_vars

\* The latest step completed a createConversation / createNewConversation
\* call that made a conversation.
CreatedNow == last.op = "create" /\ ~last.failed

\* C13: when createConversation completes, the conversation it made has zero
\* messages and the title "New Conversation", is the first element of the
\* collection and is the current conversation; in ephemeral mode it is also
\* the value returned to the caller.
C13_CreateResult ==
  CreatedNow =>
    /\ Len(conversations) > 0
    /\ conversations[1].id = last.id
    /\ conversations[1].messages = <<>>
    /\ conversations[1].title = Placeholder
    /\ currentConversation = conversations[1]
    /\ mode = "ephemeral" => flow.ret = conversations[1]

\* C13 witness: a create has just completed in front of an older conversation
\* and the new conversation is current.
C13_Witness ==
  /\ CreatedNow
  /\ Len(conversations) >= 2
  /\ currentConversation.id = last.id
  /\ currentConversation.messages = <<>>

\* The step completes a deleteConversation that was called on the only
\* conversation of the collection and whose deletion succeeded.
DeletesTheOnlyOne ==
  \/ /\ mode = "ephemeral" /\ last'.op = "delete"
     /\ Len(conversations) = 1 /\ conversations[1].id = last'.id
  \/ \E call \in calls \ calls' :
       /\ call.kind = "delete" /\ call.stage = "create"
       /\ Len(call.convs) = 1 /\ call.convs[1].id = call.id

\* C14: deleting the only conversation leaves a collection of exactly one
\* conversation, which has zero messages and the placeholder title and is the
\* current conversation.
C14_DeleteOnly ==
  [][DeletesTheOnlyOne =>
       /\ Len(conversations') = 1
       /\ conversations'[1].messages = <<>>
       /\ conversations'[1].title = Placeholder
       /\ currentConversation' = conversations'[1]]_vars

\* C15: when clearCurrentConversation has completed with both its backend
\* calls successful, the conversation that was current when it was called is
\* no longer in the collection, as after deleteConversation(current.id).
C15_ClearIsDelete ==
  (last.op = "clear" /\ ~last.failed /\ last.id # -1) =>
    last.id \notin Ids(conversations)

\* C16: a deleteConversation one of whose backend calls failed has, once it
\* has completed, applied either none of its changes (the conversation is
\* still in the collection) or all of them (the conversation is gone and is
\* not the current conversation any more).
C16_AllOrNothing ==
  (last.op = "delete" /\ last.failed /\ Settled) =>
    \/ last.id \in Ids(conversations)
    \/ currentConversation.id # last.id

\* The step completes an addMessage call.
AddCompletes ==
  /\ last'.op = "addMessage"
  /\ \/ mode = "ephemeral"
     \/ turn.pc \in {"addUser", "addReply", "addError"}

\* C17: a persisted addMessage whose backend call fails rejects (handleSubmit
\* goes on in its catch block) and leaves the collection and the current
\* conversation as they were; an ephemeral addMessage only throws when it has
\* no conversation to add to.
C17_AppendFailure ==
  [][AddCompletes =>
       /\ (mode = "persisted" /\ last'.failed) =>
            /\ ~last'.ok
            /\ turn.pc \in {"addUser", "addReply"} => turn'.pc = "addError"
            /\ conversations' = conversations
            /\ currentConversation' = currentConversation
       /\ (mode = "ephemeral" /\ ~last'.ok) =>
            /\ last'.id = -1
            /\ currentConversation = Null \/ flow.cur = Null]_vars

\* C17 witness: the addMessage('user', ...) of a turn on a conversation of the
\* collection has just failed and the turn is in its catch block.
C17_Witness ==
  /\ last.op = "addMessage" /\ last.failed /\ ~last.ok
  /\ turn.pc = "addError" /\ turn.reply = "none"
  /\ turn.cur.id \in Ids(conversations)

\* C18: when a backend call made by createNewConversation, deleteConversation
\* or clearCurrentConversation has failed, the operation does not report
\* success to its caller.
C18_FailureReported ==
  (last.op \in {"create", "delete", "clear"} /\ last.failed) => ~last.ok

\* The step resumes createNewConversation after its backend create call.
CreateReturns == \E call \in calls \ calls' : call.stage = "create"

\* C19: when the backend create call fails, createNewConversation leaves the
\* collection and the current conversation as they were.
C19_CreateFailure ==
  [][(CreateReturns /\ last'.failed) =>
       /\ conversations' = conversations
       /\ currentConversation' = currentConversation]_vars

\* C19 witness: a click on "New Chat" has just failed at the backend, with a
\* conversation in the collection.
C19_Witness ==
  /\ last.op = "create" /\ last.failed
  /\ Len(conversations) > 0
  /\ currentConversation.id \in Ids(conversations)

\* C20: addMessage called with no current conversation and no target does
\* not return normally.
C20_NoActiveConversation ==
  (last.op = "addMessage" /\ last.id = -1) => ~last.ok

\* C21: switchConversation(id) leaves the collection unchanged; when id is in
\* the collection the current conversation becomes an entry of the collection
\* with that id, and when it is not the current conversation is unchanged.
C21_SwitchFrame ==
  [][last'.op = "switch" =>
       /\ conversations' = conversations
       /\ IF last'.id \in Ids(conversations)
          THEN \E i \in Indexes(conversations) :
                 conversations[i].id = last'.id /\ currentConversation' = conversations[i]
          ELSE currentConversation' = currentConversation]_vars

\* C21 witness: a switch has just made another conversation of a collection
\* of two or more current.
C21_Witness ==
  /\ last.op = "switch"
  /\ Len(conversations) >= 2
  /\ currentConversation.id = last.id
  /\ currentConversation.id # conversations[1].id

\* C22: switchConversation(id) and deleteConversation(id) called with an id
\* that is not in the collection do not report success and change neither
\* the collection nor the current conversation (stated on the ephemeral
\* provider, where a call is one step).
C22_NotFound ==
  [][(last'.op \in {"switch", "delete"} /\ mode = "ephemeral"
      /\ last'.id \notin Ids(conversations))
       => /\ ~last'.ok
          /\ conversations' = conversations
          /\ currentConversation' = currentConversation]_vars

\* C23: when the load started for a new identity has finished with a failure
\* (so that it brought nothing in), the collection is empty and there is no
\* current conversation: nothing loaded or created under the previous
\* identity is left.  (While a load is in flight no conversation can be
\* created, so whatever the store holds then dates from before the login.)
C23_IdentityChange ==
  (last.op = "load" /\ last.failed) =>
    /\ conversations = <<>>
    /\ currentConversation = Null

\* The step resumes loadConversations after its list call.
ListReturns == \E call \in calls \ calls' : call.kind = "load" /\ call.stage = "list"

\* C24: neither the start of a load nor the failure of its list call changes
\* the collection or the current conversation.
C24_ListFailure ==
  [][(last'.op = "login" \/ (ListReturns /\ last'.failed)) =>
       /\ conversations' = conversations
       /\ currentConversation' = currentConversation]_vars

\* C24 witness: a list call has just failed while the store held a current
\* conversation of its collection.
C24_Witness ==
  /\ last.op = "load" /\ last.failed
  /\ Len(conversations) > 0
  /\ currentConversation.id \in Ids(conversations)

\* C25: the collection is ordered most recently created first: createdAt
\* never increases along the collection.
C25_NewestFirst ==
  \A i, j \in Indexes(conversations) :
    i < j => conversations[i].createdAt >= conversations[j].createdAt

\* The mutation of the operation the latest step completed is present in the
\* collection: the created conversation is in it, the deleted one is not, the
\* added message is the last message of the conversation it was added to.
MutationPresent ==
  CASE last.op = "create" -> last.id \in Ids(conversations)
    [] last.op = "delete" -> last.id \notin Ids(conversations)
    [] last.op = "addMessage" ->
         \E i \in Indexes(conversations) :
           /\ conversations[i].id = last.id
           /\ HasMessages(conversations[i])
           /\ Last(conversations[i].messages).id = msgSeq
    [] OTHER -> TRUE

\* C26: when a persisted createNewConversation, deleteConversation or
\* addMessage (on a conversation) has completed, its mutation is present in
\* the collection or it has reported a failure to its caller.
C26_CompletesOrReports ==
  (/\ mode = "persisted"
   /\ \/ last.op = "create"
      \/ last.op \in {"delete", "addMessage"} /\ last.id # -1)
    => (MutationPresent \/ ~last.ok)

\* C27: when handleSubmit goes on to chat() after its addMessage('user', ...),
\* the user message has been recorded and the history it hands over is the
\* current conversation's message sequence, the new user message last.
C27_HistoryForReply ==
  [][(turn.pc = "addUser" /\ turn'.pc = "chat") =>
       /\ msgSeq' = msgSeq + 1
       /\ HasMessages(currentConversation')
       /\ Last(currentConversation'.messages) = NewMessage(msgSeq', "user", turn.text)
       /\ History(turn.cur, turn.text) = AsHistory(currentConversation'.messages)]_vars

\* The collection holds exactly one conversation, which has zero messages and
\* the placeholder title and is the current conversation, after the step.
OneFreshCurrent ==
  /\ Len(conversations') = 1
  /\ conversations'[1].messages = <<>>
  /\ conversations'[1].title = Placeholder
  /\ currentConversation' = conversations'[1]

\* C28: the ephemeral mount seeds exactly one empty conversation titled
\* "New Conversation" and makes it current; a persisted load whose list call
\* returned a non-empty list makes the first listed conversation current, and
\* one whose list call returned an empty list ends with exactly one new empty
\* conversation, the only element of the collection and current.
C28_Seeding ==
  [][/\ (mode = "ephemeral" /\ last'.op = "mount") => OneFreshCurrent
     /\ (ListReturns /\ ~last'.failed /\ Len(conversations') > 0) =>
          currentConversation' = conversations'[1]
     /\ (\E call \in calls \ calls' : call.kind = "load" /\ call.stage = "create") =>
          OneFreshCurrent]_vars

\* C29: after a click on the sidebar's "New chat" the store has a new
\* conversation with zero messages as its current conversation, the first of
\* the collection.
C29_SidebarNewChat ==
  [][last'.op = "newChat" =>
       /\ last'.ok
       /\ currentConversation' # currentConversation
       /\ currentConversation'.messages = <<>>
       /\ Len(conversations') > 0 /\ conversations'[1] = currentConversation']_vars

\* C30: after every completed operation, a non-null current conversation has
\* the title and the messages of every entry of the collection with its id:
\* the current-conversation snapshot never diverges from the collection.
C30_SnapshotAgrees ==
  (Completed /\ currentConversation # Null) =>
    \A i \in Indexes(conversations) :
      conversations[i].id = currentConversation.id =>
        /\ conversations[i].title = currentConversation.title
        /\ conversations[i].messages = currentConversation.messages

\* C31: a completing addMessage never changes which conversation id is
\* current, whatever was switched to or created while it was in flight: the
\* id of a non-null current conversation is the same after the completion.
C31_AddKeepsCurrentId ==
  [][(last'.op = "addMessage" /\ currentConversation # Null) =>
       currentConversation'.id = currentConversation.id]_vars

\* The step ends an API call awaited by loadConversations(): the list call,
\* or the create call it makes for an empty list.
LoadResultArrives ==
  \E call \in calls \ calls' : call.kind = "load"

\* C32: the result of a load that arrives after the identity became none
\* (the load was started for an identity that is gone) never becomes the
\* collection or the current conversation: the store stays empty with no
\* current conversation.
C32_StaleLoadDropped ==
  [][(LoadResultArrives /\ user = NoUser) =>
       /\ conversations' = <<>>
       /\ currentConversation' = Null]_vars

\* The step applies a successful deleteConversation(id) of a conversation of
\* the collection that was not the current conversation when it was called.
DeletionOfOther(id) ==
  /\ id \in Ids(conversations)
  /\ \/ /\ mode = "ephemeral" /\ last'.op = "delete" /\ last'.id = id
        /\ currentConversation.id # id
     \/ /\ \E call \in calls \ calls' :
             /\ call.kind = "delete" /\ call.stage = "delete"
             /\ call.id = id /\ call.curId # id
        /\ ~last'.failed

\* The index in s of the k-th entry of s whose id is not id.
KthOther(s, id, k) ==
  CHOOSE i \in Indexes(s) :
    /\ s[i].id # id
    /\ Cardinality({j \in 1..i : s[j].id # id}) = k

\* C33: deleteConversation(id) of a conversation of the collection that is
\* not current removes exactly the entries with that id: the current
\* conversation, every other entry and their order are unchanged, and no
\* conversation is created.
C33_DeleteOther ==
  [][\A id \in Ids(conversations) :
       DeletionOfOther(id) =>
         /\ currentConversation' = currentConversation
         /\ Len(conversations') =
              Cardinality({i \in Indexes(conversations) : conversations[i].id # id})
         /\ \A k \in Indexes(conversations') :
              conversations'[k] = conversations[KthOther(conversations, id, k)]]_vars

\* C33 witness: a deletion of another conversation has left two or more
\* conversations, of which the current one is not the first.
C33_Witness ==
  /\ last.op = "delete" /\ last.ok /\ ~last.failed
  /\ last.id # AbsentId /\ last.id \notin Ids(conversations)
  /\ Len(conversations) >= 2
  /\ currentConversation = conversations[2]
  /\ currentConversation.id # conversations[1].id

\* C34: at most one turn is in flight in the chat view.  While a turn is
\* loading no step starts another; a turn only starts with a trimmed,
\* non-blank text; and a submit that is ignored (blank input, or made while
\* a turn is loading) makes no addMessage or reply-generation call and
\* leaves the store unchanged.
C34_OneTurn ==
  [][/\ (turn.pc # "idle" /\ turn'.pc = "addUser") => turn' = turn
     /\ (turn.pc = "idle" /\ turn'.pc = "addUser") =>
          /\ turn'.text # <<>>
          /\ Head(turn'.text) \notin Whitespace
          /\ Last(turn'.text) \notin Whitespace
     /\ (last'.op = "submit") =>
          /\ ~last'.ok
          /\ UNCHANGED <<conversations, currentConversation, msgSeq, srvSeq, calls,
                         turn>>]_vars

\* C34 witness: a submit has just been ignored while a turn was waiting for
\* its reply.
C34_Witness ==
  /\ last.op = "submit" /\ turn.pc = "chat" /\ turn.cur # Null

\* C35: every submitted turn eventually sets the chat view's isLoading flag
\* back to false, whatever the outcome of its addMessage calls and of reply
\* generation, provided each call eventually returns or fails.
C35_LoadingEnds == (turn.pc # "idle") ~> (turn.pc = "idle")

\* C35 witness: a turn has ended although the addMessage call of its failure
\* handler failed too.
C35_Witness ==
  /\ turn.pc = "idle" /\ last.op = "addMessage" /\ last.failed /\ ~last.ok

\* C36: the provider's isLoading flag is true whenever a conversation load
\* is in flight and false whenever none is, also when a second load starts
\* before the first has finished.
C36_LoadingFlag ==
  isLoading <=> (\E call \in calls : call.kind = "load")

====
